---- MODULE Spec2Model ----
(***************************************************************************)
(* Terminology mapping and translation engine of the NAMASTE / ICD-11      *)
(* bridge: the mapping generator (MappingService.generate_mappings), the   *)
(* validation registry (concept_mappings table, validate_mapping route),   *)
(* the translation resolver (MappingService.translate_code) and the        *)
(* external vocabulary synchronizer (ICD11Service.fetch_tm2_codes).        *)
(*                                                                         *)
(* Scores are fixed-point hundredths: 0.3 is 30, 0.9 is 90, 1.0 is 100.    *)
(* A text (display, definition) is the set of its terms.  The library's    *)
(* term weighting is abstracted to term presence over the fitted           *)
(* vocabulary; the state of the vectorizer (what fit_transform learnt) is  *)
(* kept, because generate_mappings reuses one vectorizer per instance.     *)
(***************************************************************************)
EXTENDS Integers, Sequences, FiniteSets, TLC

VARIABLES
    db,                 \* MongoDB: collection name -> sequence of documents
    concept_mappings,   \* SQL table concept_mappings: sequence of rows, id = index
    vectorizer,         \* MappingService.vectorizer of the instance in use
    now,                \* wall clock (func.now(), datetime.utcnow())
    last,               \* the last call made and what it returned
    sync_pc,            \* per synchronization run: position in fetch_tm2_codes
    sync_children,      \* per run: the child references of the fetched root
    sync_idx,           \* per run: number of child references already processed
    sync_codes,         \* per run: the local list `codes`
    sync_failed,        \* per run: the child references whose fetch failed
    sync_result,        \* per run: what fetch_tm2_codes returned or raised
    sync_auth,          \* per run: the token it holds and the remote calls it made
    token_cache,        \* Redis key "icd11:access_token": the token and its expiry
    issued,             \* remote service: the tokens issued, token id = index
    clock,              \* seconds elapsed
    background_tasks,   \* the mapping jobs added by the route and not yet run
    response            \* the last response of the generate-mappings route

vars == <<db, concept_mappings, vectorizer, now, last,
          sync_pc, sync_children, sync_idx, sync_codes, sync_failed, sync_result,
          sync_auth, token_cache, issued, clock, background_tasks, response>>

mapVars == <<concept_mappings, vectorizer, now, last>>
syncVars == <<sync_pc, sync_children, sync_idx, sync_codes, sync_failed, sync_result>>
authVars == <<sync_auth, token_cache, issued, clock>>
jobVars == <<background_tasks, response>>

----------------------------------------------------------------------------
(* Bounds of the model *)

MaxMappings == 2        \* rows the concept_mappings table may hold
MaxClock == 1           \* ticks of the clock
MaxChildren == 5        \* child references of the root entity
MaxTokens == 2          \* tokens the remote service issues
MaxTime == 3600         \* seconds the clock runs
TimeStep == 1200        \* seconds between two observations of the clock
MaxBatch == 2           \* rows of an uploaded CSV file
MaxStore == 4           \* documents the namaste_codes collection may hold
MaxTasks == 2           \* mapping jobs waiting to be run
MaxLimit == 2           \* the limit of a search request
MaxOffset == 6          \* the offset of a search request

(* Program constants, in hundredths where they are scores *)

DefaultThreshold == 30
ExactMin == 90
EquivalentMin == 70
WiderMin == 50
MaxFeatures == 1000
CacheTTL == 3000

\* NULL in a string column, NULL in a date column
None == "none"
NoDate == -1

\* TfidfVectorizer as constructed: nothing fitted
Unfitted == [fitted |-> FALSE, vocabulary |-> {}]

----------------------------------------------------------------------------
(* Vocabulary documents *)

StopWords == {"of"}

NAMASTE == "namaste"
ICD11_TM2 == "icd11_tm2"

N1 == [code |-> "N1", display |-> {"joint", "pain"}, definition |-> {},
       system |-> NAMASTE]
N2 == [code |-> "N2", display |-> {"fracture"}, definition |-> {"of"},
       system |-> NAMASTE]
N3 == [code |-> "N3", display |-> {"of"}, definition |-> {},
       system |-> NAMASTE]

T1 == [code |-> "T1", display |-> {"joint", "pain"}, definition |-> {"disorder"},
       system |-> ICD11_TM2]
T2 == [code |-> "T2", display |-> {"fracture"}, definition |-> {},
       system |-> ICD11_TM2]
T3 == [code |-> "T3", display |-> {"joint", "disorder"}, definition |-> {},
       system |-> ICD11_TM2]
T4 == [code |-> "T4", display |-> {"pain"}, definition |-> {"disorder", "fracture"},
       system |-> ICD11_TM2]

CollectionNames == {"namaste_codes", "icd11_codes", "icd11_tm2_codes"}

\* f"{source_system}_codes"
CollectionName(system) ==
    CASE system = "namaste" -> "namaste_codes"
      [] system = "icd11" -> "icd11_codes"
      [] system = "icd11_tm2" -> "icd11_tm2_codes"

Systems == {"namaste", "icd11", "icd11_tm2"}

----------------------------------------------------------------------------
(* Text vectorization and similarity *)

\* f"{code.get('display', '')} {code.get('definition', '')}"
Text(code) == code.display \cup code.definition

Texts(codes) == [i \in 1..Len(codes) |-> Text(codes[i])]

\* TfidfVectorizer.fit: the vocabulary of the fitted texts, stop words removed,
\* capped at max_features
Fit(all_texts) ==
    LET terms == UNION {all_texts[i] : i \in 1..Len(all_texts)} \ StopWords
    IN  IF Cardinality(terms) <= MaxFeatures THEN terms
        ELSE CHOOSE s \in SUBSET terms : Cardinality(s) = MaxFeatures

\* one row of the tf-idf matrix: the terms of the text that are in the vocabulary
Transform(vocabulary, text) == text \cap vocabulary

RECURSIVE FloorRoot(_, _, _, _)
\* the largest k in lo..hi with k * k * d <= n (there is one)
FloorRoot(lo, hi, n, d) ==
    IF lo = hi THEN lo
    ELSE LET mid == (lo + hi + 1) \div 2
         IN  IF mid * mid * d <= n THEN FloorRoot(mid, hi, n, d)
             ELSE FloorRoot(lo, mid - 1, n, d)

\* cosine_similarity of two rows: dot / (|u| |v|), floored to hundredths;
\* 0 for a zero vector
CosineSimilarity(u, v) ==
    LET dot == Cardinality(u \cap v)
        nn == Cardinality(u) * Cardinality(v)
    IN  IF nn = 0 THEN 0
        ELSE FloorRoot(0, 100, (100 * dot) * (100 * dot), nn)

\* similarity_matrix = cosine_similarity(source_matrix, target_matrix)
SimilarityMatrix(vocabulary, source_codes, target_codes) ==
    [i \in 1..Len(source_codes) |->
        [j \in 1..Len(target_codes) |->
            CosineSimilarity(Transform(vocabulary, Text(source_codes[i])),
                             Transform(vocabulary, Text(target_codes[j])))]]

\* a vectorizer that is fitted once and only transforms afterwards
FitTransformOnce(instance, all_texts) ==
    IF instance.fitted THEN instance
    ELSE [fitted |-> TRUE, vocabulary |-> Fit(all_texts)]

\* the vectorizer after self.vectorizer.fit_transform(all_texts)
FitTransform(instance, all_texts) == [fitted |-> TRUE, vocabulary |-> Fit(all_texts)]

\* only the best match of the source entry, if it reaches the threshold
BestMatchOnly(similarities, threshold) ==
    SelectSeq([j \in 1..Len(similarities) |-> j],
              LAMBDA j : /\ similarities[j] >= threshold
                         /\ \A k \in 1..Len(similarities) :
                               \/ similarities[k] < similarities[j]
                               \/ (similarities[k] = similarities[j] /\ j <= k))

\* the threshold taken as a distance
MatchesByDistance(similarities, threshold) ==
    SelectSeq([j \in 1..Len(similarities) |-> j],
              LAMBDA j : similarities[j] >= 100 - threshold)

\* np.where(similarities >= threshold)[0]: the indices, ascending
BestMatchesIdx(similarities, threshold) ==
    SelectSeq([j \in 1..Len(similarities) |-> j],
              LAMBDA j : similarities[j] >= threshold)

\* the bands with their lower ends left out
DetermineEquivalenceStrict(confidence) ==
    IF confidence > ExactMin THEN "exact"
    ELSE IF confidence > EquivalentMin THEN "equivalent"
    ELSE IF confidence > WiderMin THEN "wider"
    ELSE "inexact"

\* _determine_equivalence
DetermineEquivalence(confidence) ==
    IF confidence >= ExactMin THEN "exact"
    ELSE IF confidence >= EquivalentMin THEN "equivalent"
    ELSE IF confidence >= WiderMin THEN "wider"
    ELSE "inexact"

Mapping(source_code, source_system, target_code, target_system, confidence) ==
    [source_code |-> source_code.code,
     source_system |-> source_system,
     target_code |-> target_code.code,
     target_system |-> target_system,
     equivalence |-> DetermineEquivalence(confidence),
     confidence_score |-> confidence,
     is_validated |-> FALSE]

\* the inner loop: the mappings of source entry i
MappingsOfSource(i, source_codes, target_codes, source_system, target_system, similarity_matrix, threshold) ==
    LET similarities == similarity_matrix[i]
        best_matches_idx == BestMatchesIdx(similarities, threshold)
    IN  [k \in 1..Len(best_matches_idx) |->
            Mapping(source_codes[i], source_system,
                    target_codes[best_matches_idx[k]], target_system,
                    similarities[best_matches_idx[k]])]

RECURSIVE MappingsUpTo(_, _, _, _, _, _, _)
\* the outer loop: the list `mappings` after source entries 1..i
MappingsUpTo(i, source_codes, target_codes, source_system, target_system, similarity_matrix, threshold) ==
    IF i = 0 THEN <<>>
    ELSE MappingsUpTo(i - 1, source_codes, target_codes, source_system,
                      target_system, similarity_matrix, threshold)
         \o MappingsOfSource(i, source_codes, target_codes, source_system,
                             target_system, similarity_matrix, threshold)

\* ConceptMapping(**mapping) as inserted: id by autoincrement, created_at by
\* the server default, validated_by and validation_date NULL
Row(id, mapping, created_at) ==
    [id |-> id,
     source_code |-> mapping.source_code,
     source_system |-> mapping.source_system,
     target_code |-> mapping.target_code,
     target_system |-> mapping.target_system,
     equivalence |-> mapping.equivalence,
     confidence_score |-> mapping.confidence_score,
     is_validated |-> mapping.is_validated,
     validated_by |-> None,
     validation_date |-> NoDate,
     created_at |-> created_at]

Rows(mappings, first_id, created_at) ==
    [k \in 1..Len(mappings) |-> Row(first_id + k - 1, mappings[k], created_at)]

\* only the source corpus is looked at
NoSourceCodes(source_codes, target_codes) == source_codes = <<>>

\* not source_codes or not target_codes
NoCodesFound(source_codes, target_codes) == source_codes = <<>> \/ target_codes = <<>>

\* a regeneration that replaces the rows of the table
PersistReplacing(table, mappings, created_at, fails) ==
    IF fails THEN table
    ELSE Rows(mappings, Len(table) + 1, created_at)

\* every row committed as it is added: a failure at the end keeps the rows
\* committed before it
PersistEach(table, mappings, created_at, fails) ==
    IF fails
    THEN table \o Rows(SubSeq(mappings, 1, Len(mappings) - 1), Len(table) + 1, created_at)
    ELSE table \o Rows(mappings, Len(table) + 1, created_at)

\* the table after db.add of every mapping and db.commit(); fails: the
\* commit raises and the session is rolled back
Persist(table, mappings, created_at, fails) ==
    IF fails THEN table
    ELSE table \o Rows(mappings, Len(table) + 1, created_at)

----------------------------------------------------------------------------
(* Mapping generator: MappingService.generate_mappings *)

\* One call of generate_mappings.  fresh: the call is made on a newly
\* constructed MappingService (as the route does) and not on the instance of
\* the previous call.  has_db: a session is passed.  fails: where the stores
\* fail, if they do ("find": the document store, "commit": the final commit).
\* `last` is the call and what it returned; refit: the instance had been fitted
\* by an earlier call.
Generation(source_system, target_system, threshold, fresh, has_db, fails) ==
    LET source_codes == db[CollectionName(source_system)]
        target_codes == db[CollectionName(target_system)]
        instance == IF fresh THEN Unfitted ELSE vectorizer
        all_texts == Texts(source_codes) \o Texts(target_codes)
        fitted == FitTransform(instance, all_texts)
        similarity_matrix == SimilarityMatrix(fitted.vocabulary, source_codes, target_codes)
        mappings == MappingsUpTo(Len(source_codes), source_codes, target_codes,
                                 source_system, target_system, similarity_matrix,
                                 threshold)
        call == [op |-> "generate", source_system |-> source_system,
                 target_system |-> target_system, threshold |-> threshold,
                 refit |-> instance.fitted]
        raised == call @@ [status |-> "error", mappings |-> <<>>]
    IN  /\ fails = "commit" => has_db
        /\ IF fails = "find"
           THEN \* the document store is unreachable: rollback, raise
                /\ last' = raised
                /\ vectorizer' = instance
                /\ UNCHANGED concept_mappings
           ELSE IF NoCodesFound(source_codes, target_codes)
           THEN \* no codes found: return []
                /\ last' = call @@ [status |-> "ok", mappings |-> <<>>]
                /\ vectorizer' = instance
                /\ UNCHANGED concept_mappings
           ELSE IF fitted.vocabulary = {}
           THEN \* fit_transform raises on an empty vocabulary: rollback, raise
                /\ last' = raised
                /\ vectorizer' = instance
                /\ UNCHANGED concept_mappings
           ELSE IF fails = "commit"
           THEN \* db.commit() raises: rollback, raise
                /\ last' = raised
                /\ vectorizer' = fitted
                /\ concept_mappings' = Persist(concept_mappings, mappings, now, TRUE)
           ELSE /\ has_db => Len(concept_mappings) + Len(mappings) <= MaxMappings
                /\ last' = call @@ [status |-> "ok", mappings |-> mappings]
                /\ vectorizer' = fitted
                /\ concept_mappings' =
                      IF has_db
                      THEN Persist(concept_mappings, mappings, now, FALSE)
                      ELSE concept_mappings

\* a call of generate_mappings awaited by its caller
GenerateMappings(source_system, target_system, threshold, fresh, has_db, fails) ==
    /\ Generation(source_system, target_system, threshold, fresh, has_db, fails)
    /\ UNCHANGED <<db, now, syncVars, authVars, jobVars>>

----------------------------------------------------------------------------
(* Validation registry: the validate_mapping route *)

Users == {"alice", "bob", "carol"}

\* User.role
Role(username) ==
    CASE username = "alice" -> "expert"
      [] username = "bob" -> "admin"
      [] username = "carol" -> "user"

\* the validation state of a row, read from its columns
ValidationState(row) ==
    IF row.is_validated THEN "VALIDATED"
    ELSE IF row.validated_by = None /\ row.validation_date = NoDate THEN "UNVALIDATED"
    ELSE "REJECTED"

\* the decision merged into the row: the first validator is kept
ValidatedMerge(row, is_valid, username, date) ==
    [row EXCEPT !.is_validated = is_valid,
                !.validated_by = IF @ = None THEN username ELSE @,
                !.validation_date = date]

\* a validation that also sets the score of the row to 1
ValidatedRescored(row, is_valid, username, date) ==
    [row EXCEPT !.is_validated = is_valid,
                !.validated_by = username,
                !.validation_date = date,
                !.confidence_score = 100]

\* a rejection recorded without the name of who decided it
ValidatedAnonymousReject(row, is_valid, username, date) ==
    [row EXCEPT !.is_validated = is_valid,
                !.validated_by = IF is_valid THEN username ELSE None,
                !.validation_date = date]

\* the decision recorded without its date
ValidatedNoDate(row, is_valid, username, date) ==
    [row EXCEPT !.is_validated = is_valid,
                !.validated_by = username]

\* the row after the assignments of validate_mapping
Validated(row, is_valid, username, date) ==
    [row EXCEPT !.is_validated = is_valid,
                !.validated_by = username,
                !.validation_date = date]

\* One request to the route; `last` is its response, with the state the row
\* was found in
ValidateMapping(mapping_id, is_valid, current_user) ==
    /\ IF Role(current_user) \notin {"admin", "expert"}
       THEN /\ last' = [op |-> "validate", status |-> 403]
            /\ UNCHANGED concept_mappings
       ELSE IF mapping_id \notin 1..Len(concept_mappings)
       THEN /\ last' = [op |-> "validate", status |-> 404]
            /\ UNCHANGED concept_mappings
       ELSE /\ concept_mappings' =
                  [concept_mappings EXCEPT ![mapping_id] =
                      Validated(@, is_valid, current_user, now)]
            /\ last' = [op |-> "validate", status |-> 200,
                        previous_state |-> ValidationState(concept_mappings[mapping_id]),
                        mapping_id |-> mapping_id,
                        is_validated |-> is_valid,
                        validated_by |-> current_user]
    /\ UNCHANGED <<db, vectorizer, now, syncVars, authVars, jobVars>>

----------------------------------------------------------------------------
(* The generate-mappings route *)

\* One request to the route.  background: the parameter background_tasks is
\* an object, not None.  fails: where the stores fail in a call that is awaited.
GenerateRoute(source_system, target_system, threshold, current_user, background, fails) ==
    IF Role(current_user) # "admin"
    THEN /\ response' = [status |-> 403]
         /\ UNCHANGED <<db, mapVars, syncVars, authVars, background_tasks>>
    ELSE IF background
    THEN \* add_task: the job runs after the response is sent
         /\ fails = "no"
         /\ Len(background_tasks) < MaxTasks
         /\ background_tasks' = Append(background_tasks,
                                       [source_system |-> source_system,
                                        target_system |-> target_system,
                                        threshold |-> threshold])
         /\ response' = [status |-> 200,
                         message |-> "Mapping generation started in background",
                         source_system |-> source_system,
                         target_system |-> target_system]
         /\ UNCHANGED <<db, mapVars, syncVars, authVars>>
    ELSE /\ Generation(source_system, target_system, threshold, TRUE, TRUE, fails)
         /\ response' = IF last'.status = "ok"
                        THEN [status |-> 200,
                              message |-> "Mappings generated successfully",
                              mappings_count |-> Len(last'.mappings),
                              source_system |-> source_system,
                              target_system |-> target_system]
                        ELSE [status |-> 500]
         /\ UNCHANGED <<db, now, syncVars, authVars, background_tasks>>

\* The first waiting job is run: generate_mappings on the service and the
\* session of its request; what it returns or raises goes to nobody
RunTask(fails) ==
    /\ background_tasks # <<>>
    /\ LET task == Head(background_tasks)
       IN  Generation(task.source_system, task.target_system, task.threshold,
                      TRUE, TRUE, fails)
    /\ background_tasks' = Tail(background_tasks)
    /\ UNCHANGED <<db, now, syncVars, authVars, response>>

----------------------------------------------------------------------------
(* Translation resolver: MappingService.translate_code *)

\* a filter that also asks for a validated row
MatchesValidated(row, code, source_system, target_system) ==
    /\ row.source_code = code
    /\ row.source_system = source_system
    /\ row.target_system = target_system
    /\ row.is_validated

\* the filter of the query
Matches(row, code, source_system, target_system) ==
    /\ row.source_code = code
    /\ row.source_system = source_system
    /\ row.target_system = target_system

\* order_by(ConceptMapping.confidence_score.desc()): the orders of the rows
\* `ids` the database may return them in
OrderByScoreDesc(ids) ==
    {result \in [1..Cardinality(ids) -> ids] :
        /\ \A i, j \in 1..Cardinality(ids) : i # j => result[i] # result[j]
        /\ \A i, j \in 1..Cardinality(ids) :
              i < j => concept_mappings[result[i]].confidence_score
                         >= concept_mappings[result[j]].confidence_score}

TranslateCode(code, source_system, target_system) ==
    LET ids == {id \in 1..Len(concept_mappings) :
                   Matches(concept_mappings[id], code, source_system, target_system)}
    IN  /\ \E result \in OrderByScoreDesc(ids) :
              last' = [op |-> "translate", code |-> code,
                       source_system |-> source_system,
                       target_system |-> target_system,
                       status |-> "ok", mappings |-> result]
        /\ UNCHANGED <<db, concept_mappings, vectorizer, now, syncVars, authVars, jobVars>>

\* time passes
Tick ==
    /\ now < MaxClock
    /\ now' = now + 1
    /\ UNCHANGED <<db, concept_mappings, vectorizer, last, syncVars, authVars, jobVars>>

----------------------------------------------------------------------------
(* External vocabulary synchronizer: ICD11Service.fetch_tm2_codes *)

SyncRuns == {"r1", "r2"}

T5 == [code |-> "T5", display |-> {"fever"}, definition |-> {},
       system |-> ICD11_TM2]
T0 == [code |-> "T0", display |-> {"pain"}, definition |-> {},
       system |-> ICD11_TM2]

\* the entities the child references of the root resolve to, as code_entry
\* makes them (lines 122-129)
RemoteEntities == <<T1, T2, T3, T4, T5, T0>>

\* an entity below T1 in the remote hierarchy
G1 == [code |-> "G1", display |-> {"joint"}, definition |-> {},
       system |-> ICD11_TM2]

\* the "child" references in the answer of the remote service for an entity
\* that is not the root: T1 declares one child, the others none
ChildReferences(entity) == IF entity.code = "T1" THEN <<G1>> ELSE <<>>

\* authenticate() and the GET of the root entity.  n: the number of child
\* references the root declares (0 also stands for a root without "child").
SyncStart(r, outcome, n) ==
    /\ sync_pc[r] = "idle"
    /\ IF outcome = "ok"
       THEN /\ sync_pc' = [sync_pc EXCEPT ![r] = "crawl"]
            /\ sync_children' = [sync_children EXCEPT ![r] = n]
            /\ UNCHANGED sync_result
       ELSE \* authentication failed, or the root answered other than 200
            /\ n = 0
            /\ sync_pc' = [sync_pc EXCEPT ![r] = "failed"]
            /\ sync_result' = [sync_result EXCEPT ![r] = [outcome |-> "raised"]]
            /\ UNCHANGED sync_children
    /\ UNCHANGED <<db, mapVars, jobVars, authVars, sync_idx, sync_codes, sync_failed>>

\* a loop in which an exception of one GET ends the run
ProcessChildAbort(r, outcome) ==
    /\ sync_pc[r] = "crawl"
    /\ sync_idx[r] < sync_children[r]
    /\ sync_idx' = [sync_idx EXCEPT ![r] = @ + 1]
    /\ IF outcome = "ok"
       THEN /\ sync_codes' = [sync_codes EXCEPT ![r] =
                                 Append(@, RemoteEntities[sync_idx[r] + 1])]
            /\ UNCHANGED <<sync_failed, sync_pc, sync_result>>
       ELSE /\ sync_failed' = [sync_failed EXCEPT ![r] = @ \cup {sync_idx[r] + 1}]
            /\ IF outcome = "exception"
               THEN /\ sync_pc' = [sync_pc EXCEPT ![r] = "failed"]
                    /\ sync_result' = [sync_result EXCEPT ![r] = [outcome |-> "raised"]]
               ELSE UNCHANGED <<sync_pc, sync_result>>
            /\ UNCHANGED sync_codes
    /\ UNCHANGED <<db, mapVars, jobVars, authVars, sync_children>>

\* one iteration of the loop of _process_tm2_hierarchy: the GET of the next
\* child reference, answered 200 ("ok"), answered otherwise ("status"), or
\* raising ("exception")
ProcessChild(r, outcome) ==
    /\ sync_pc[r] = "crawl"
    /\ sync_idx[r] < sync_children[r]
    /\ sync_idx' = [sync_idx EXCEPT ![r] = @ + 1]
    /\ IF outcome = "ok"
       THEN /\ sync_codes' = [sync_codes EXCEPT ![r] =
                                 Append(@, RemoteEntities[sync_idx[r] + 1])]
            /\ UNCHANGED sync_failed
       ELSE \* status other than 200: nothing appended; exception: logged, continue
            /\ sync_failed' = [sync_failed EXCEPT ![r] = @ \cup {sync_idx[r] + 1}]
            /\ UNCHANGED sync_codes
    /\ UNCHANGED <<db, mapVars, jobVars, authVars, sync_pc, sync_children, sync_result>>

\* delete_many({"system": "icd11_tm2"}) on a collection
DeleteTM2(collection) == SelectSeq(collection, LAMBDA e : e.system # ICD11_TM2)

\* the collection after lines 86-89.  fails: "no", "delete" (delete_many
\* raises) or "insert" (insert_many raises, having written the first
\* `written` documents of the ordered batch)
StoreCodes(collection, codes, fails, written) ==
    IF codes = <<>> THEN collection
    ELSE IF fails = "delete" THEN collection
    ELSE IF fails = "insert" THEN DeleteTM2(collection) \o SubSeq(codes, 1, written)
    ELSE DeleteTM2(collection) \o codes

\* the end of the crawl: codes is returned, stored and reported
SyncStore(r, fails, written) ==
    /\ sync_pc[r] = "crawl"
    /\ sync_idx[r] = sync_children[r]
    /\ fails # "no" => sync_codes[r] # <<>>
    /\ IF fails = "insert" THEN written < Len(sync_codes[r]) ELSE written = 0
    /\ db' = [db EXCEPT !["icd11_codes"] = StoreCodes(@, sync_codes[r], fails, written)]
    /\ IF fails = "no"
       THEN /\ sync_pc' = [sync_pc EXCEPT ![r] = "done"]
            /\ sync_result' = [sync_result EXCEPT ![r] =
                                  [outcome |-> "returned",
                                   success |-> TRUE,
                                   codes_fetched |-> Len(sync_codes[r]),
                                   system |-> ICD11_TM2]]
       ELSE /\ sync_pc' = [sync_pc EXCEPT ![r] = "failed"]
            /\ sync_result' = [sync_result EXCEPT ![r] = [outcome |-> "raised"]]
    /\ UNCHANGED <<mapVars, jobVars, authVars, sync_children, sync_idx, sync_codes, sync_failed>>

----------------------------------------------------------------------------
(* ConceptMap emission: the create_concept_map route *)

\* the ids of the rows of the pair that anybody has decided, in id order
DecidedMappings(table, source_system, target_system) ==
    SelectSeq([i \in 1..Len(table) |-> i],
              LAMBDA i : /\ table[i].source_system = source_system
                         /\ table[i].target_system = target_system
                         /\ table[i].validated_by # None)

\* the ids of the rows the query of the route returns, in id order
ValidatedMappings(table, source_system, target_system) ==
    SelectSeq([i \in 1..Len(table) |-> i],
              LAMBDA i : /\ table[i].source_system = source_system
                         /\ table[i].target_system = target_system
                         /\ table[i].is_validated)

\* FHIRService.generate_concept_map: group[0].element
Elements(table, ids) ==
    [k \in 1..Len(ids) |->
        [code |-> table[ids[k]].source_code,
         target |-> [code |-> table[ids[k]].target_code,
                     equivalence |-> table[ids[k]].equivalence,
                     confidence |-> table[ids[k]].confidence_score]]]

\* One request to the route; `last` is the request, the rows the query
\* returned and the response
CreateConceptMap(source_system, target_system) ==
    LET mappings == ValidatedMappings(concept_mappings, source_system, target_system)
        call == [op |-> "concept_map", source_system |-> source_system,
                 target_system |-> target_system, rows |-> mappings]
    IN  /\ IF mappings = <<>>
           THEN last' = call @@ [status |-> 404]
           ELSE last' = call @@ [status |-> 200,
                                 element |-> Elements(concept_mappings, mappings)]
        /\ UNCHANGED <<db, concept_mappings, vectorizer, now, syncVars, authVars, jobVars>>

----------------------------------------------------------------------------
(* Bulk ingestion: NamasteService.process_csv *)

\* the rows a CSV file may hold: code, display, definition
CsvRows ==
    {[code |-> "N1", display |-> {"joint", "pain"}, definition |-> {}],
     [code |-> "N1", display |-> {"joint", "ache"}, definition |-> {}],
     [code |-> "N2", display |-> {"fracture"}, definition |-> {"of"}],
     [code |-> "N3", display |-> {"of"}, definition |-> {}]}

\* the files: the sequences of one to MaxBatch rows
CsvFiles == UNION {[1..n -> CsvRows] : n \in 1..MaxBatch}

\* doc, of a row
Document(row) ==
    [code |-> row.code, display |-> row.display, definition |-> row.definition,
     system |-> NAMASTE]

\* collection.find_one({"code": code}) finds a document
FindOne(collection, code) == \E i \in 1..Len(collection) : collection[i].code = code

\* the list `documents` after the loop over the rows: the documents of the
\* rows whose code find_one does not find in the collection
Documents(collection, rows) ==
    LET kept == SelectSeq(rows, LAMBDA row : ~FindOne(collection, row.code))
    IN  [k \in 1..Len(kept) |-> Document(kept[k])]

\* One call of process_csv on a file.  columns: the file has the required
\* columns.  `last` is the call, the codes the collection held, and the result.
ProcessCsv(rows, columns) ==
    LET collection == db["namaste_codes"]
        documents == Documents(collection, rows)
        call == [op |-> "ingest", rows |-> rows,
                 found |-> {collection[i].code : i \in 1..Len(collection)}]
    IN  /\ IF ~columns
           THEN \* ValueError: missing required columns
                /\ last' = call @@ [status |-> "error"]
                /\ UNCHANGED db
           ELSE /\ Len(collection) + Len(documents) <= MaxStore
                /\ db' = [db EXCEPT !["namaste_codes"] = @ \o documents]
                /\ last' = call @@ [status |-> "ok",
                                    success |-> TRUE,
                                    codes_processed |-> Len(documents),
                                    codes_skipped |-> Len(rows) - Len(documents),
                                    total_codes |-> Len(collection) + Len(documents)]
        /\ UNCHANGED <<concept_mappings, vectorizer, now, syncVars, authVars, jobVars>>

----------------------------------------------------------------------------
(* Search: the search_terminology route and the two search_codes *)

\* a code in lower case, as the option "i" of the regular expressions
\* compares it
Lower(code) ==
    CASE code = "N1" -> "n1" [] code = "N2" -> "n2" [] code = "N3" -> "n3"
      [] code = "T0" -> "t0" [] code = "T1" -> "t1" [] code = "T2" -> "t2"
      [] code = "T3" -> "t3" [] code = "T4" -> "t4" [] code = "T5" -> "t5"
      [] code = "G1" -> "g1"

\* the "$or" of the search filter: the query, a term in lower case, is found
\* in display, in code or in definition
MatchesQuery(doc, query) ==
    \/ query \in doc.display
    \/ query = Lower(doc.code)
    \/ query \in doc.definition

\* find(search_filter).skip(offset).limit(limit)
SkipLimit(found, offset, limit) ==
    SubSeq(found, offset + 1, IF offset + limit < Len(found) THEN offset + limit ELSE Len(found))

\* NamasteService.search_codes, without ayush_system
NamasteSearchCodes(query, limit, offset) ==
    SkipLimit(SelectSeq(db["namaste_codes"], LAMBDA doc : MatchesQuery(doc, query)),
              offset, limit)

\* ICD11Service.search_codes
ICD11SearchCodes(query, limit, offset) ==
    SkipLimit(SelectSeq(db["icd11_codes"],
                        LAMBDA doc : doc.system = ICD11_TM2 /\ MatchesQuery(doc, query)),
              offset, limit)

\* results of search_terminology: system is None when the request names none
SearchResults(query, system, limit, offset) ==
    LET results ==
            (IF system \in {NAMASTE, None}
             THEN NamasteSearchCodes(query, limit, offset) ELSE <<>>)
            \o (IF system \in {ICD11_TM2, None}
                THEN ICD11SearchCodes(query, limit, offset) ELSE <<>>)
    IN  SubSeq(results, 1, IF limit < Len(results) THEN limit ELSE Len(results))

\* One request to the route.  The caller asks for the first page, or for the
\* page after the one it was last given, if that was not empty.  `last` is
\* the request, its results, and all the results of the pages so far.
SearchTerminology(query, system, limit, offset) ==
    LET results == SearchResults(query, system, limit, offset)
        request == [op |-> "search", query |-> query, system |-> system,
                    limit |-> limit, offset |-> offset]
        following == /\ last.op = "search"
                     /\ last.query = query /\ last.system = system
                     /\ last.limit = limit
                     /\ last.results # <<>>
                     /\ offset = last.offset + limit
    IN  /\ offset = 0 \/ following
        /\ last' = request @@ [results |-> results,
                               total |-> Len(results),
                               collected |-> IF offset = 0 THEN results
                                             ELSE last.collected \o results]
        /\ UNCHANGED <<db, concept_mappings, vectorizer, now, syncVars, authVars, jobVars>>

----------------------------------------------------------------------------
(* Authentication against the remote service *)

\* no token: what RedisClient.get returns for a missing key
NoToken == 0

EmptyCache == [token |-> NoToken, until |-> 0]

\* the real lifetimes (expires_in) of the tokens the remote service issues
Lifetimes == {1800, 3600}

\* a GET that returns the value of an expired key
RedisGetStale(cache, t) == cache.token

\* RedisClient.get: the value of the key, None once the key has expired
RedisGet(cache, t) == IF t < cache.until THEN cache.token ELSE NoToken

\* RedisClient.set: SETEX key expiry value
RedisSet(value, expiry, t) == [token |-> value, until |-> t + expiry]

\* the remote service accepts the token at time t
TokenValid(token, t) ==
    /\ token \in 1..Len(issued)
    /\ t < issued[token].issued_at + issued[token].lifetime

NoAuth == [token |-> NoToken, cached |-> FALSE, exchanges |-> 0,
           root_gets |-> 0, first_answer |-> "none"]

\* a call that drops the cached token and exchanges for a new one
AuthenticateRefreshing(r) ==
    /\ sync_pc[r] = "idle"
    /\ token_cache' = EmptyCache
    /\ sync_pc' = [sync_pc EXCEPT ![r] = "exchange"]
    /\ UNCHANGED <<db, mapVars, jobVars, sync_auth, issued, clock,
                   sync_children, sync_idx, sync_codes, sync_failed, sync_result>>

\* authenticate(), up to the return of the cached token or to the POST of
\* the client-credential exchange
Authenticate(r) ==
    /\ sync_pc[r] = "idle"
    /\ LET cached_token == RedisGet(token_cache, clock)
       IN  IF cached_token # NoToken
           THEN /\ sync_pc' = [sync_pc EXCEPT ![r] = "authed"]
                /\ sync_auth' = [sync_auth EXCEPT ![r].token = cached_token,
                                                  ![r].cached = TRUE]
           ELSE /\ sync_pc' = [sync_pc EXCEPT ![r] = "exchange"]
                /\ UNCHANGED sync_auth
    /\ UNCHANGED <<db, mapVars, jobVars, token_cache, issued, clock,
                   sync_children, sync_idx, sync_codes, sync_failed, sync_result>>

\* authenticate(), from the answer of the exchange: 200 with a token of the
\* given lifetime ("ok"), or another status or an exception ("denied")
Exchange(r, outcome, lifetime) ==
    /\ sync_pc[r] = "exchange"
    /\ IF outcome = "ok"
       THEN /\ Len(issued) < MaxTokens
            /\ issued' = Append(issued, [issued_at |-> clock, lifetime |-> lifetime])
            /\ token_cache' = RedisSet(Len(issued) + 1, CacheTTL, clock)
            /\ sync_pc' = [sync_pc EXCEPT ![r] = "authed"]
            /\ sync_auth' = [sync_auth EXCEPT ![r].token = Len(issued) + 1,
                                              ![r].cached = FALSE,
                                              ![r].exchanges = @ + 1]
            /\ UNCHANGED sync_result
       ELSE /\ sync_pc' = [sync_pc EXCEPT ![r] = "failed"]
            /\ sync_auth' = [sync_auth EXCEPT ![r].exchanges = @ + 1]
            /\ sync_result' = [sync_result EXCEPT ![r] = [outcome |-> "raised"]]
            /\ UNCHANGED <<issued, token_cache>>
    /\ UNCHANGED <<db, mapVars, jobVars, clock, sync_children, sync_idx, sync_codes, sync_failed>>

\* fetch_tm2_codes, the GET of the root entity with the token authenticate
\* returned: answered 200 with n child references ("ok"), answered that the
\* token is invalid ("invalid"), or answered with another error ("error")
FetchRoot(r, outcome, n) ==
    /\ sync_pc[r] = "authed"
    /\ outcome = "ok" => TokenValid(sync_auth[r].token, clock)
    /\ outcome = "invalid" => ~TokenValid(sync_auth[r].token, clock)
    /\ sync_auth' = [sync_auth EXCEPT ![r].root_gets = @ + 1,
                                      ![r].first_answer = outcome]
    /\ IF outcome = "ok"
       THEN /\ sync_pc' = [sync_pc EXCEPT ![r] = "crawl"]
            /\ sync_children' = [sync_children EXCEPT ![r] = n]
            /\ UNCHANGED sync_result
       ELSE /\ n = 0
            /\ sync_pc' = [sync_pc EXCEPT ![r] = "failed"]
            /\ sync_result' = [sync_result EXCEPT ![r] = [outcome |-> "raised"]]
            /\ UNCHANGED sync_children
    /\ UNCHANGED <<db, mapVars, jobVars, token_cache, issued, clock,
                   sync_idx, sync_codes, sync_failed>>

\* the request of a run that returned or raised is over; the next request
\* takes its place
NextRequest(r) ==
    /\ sync_pc[r] \in {"done", "failed"}
    /\ sync_pc' = [sync_pc EXCEPT ![r] = "idle"]
    /\ sync_children' = [sync_children EXCEPT ![r] = 0]
    /\ sync_idx' = [sync_idx EXCEPT ![r] = 0]
    /\ sync_codes' = [sync_codes EXCEPT ![r] = <<>>]
    /\ sync_failed' = [sync_failed EXCEPT ![r] = {}]
    /\ sync_result' = [sync_result EXCEPT ![r] = [outcome |-> "none"]]
    /\ sync_auth' = [sync_auth EXCEPT ![r] = NoAuth]
    /\ UNCHANGED <<db, mapVars, jobVars, token_cache, issued, clock>>

\* time passes, a TimeStep at once: no exchange is in flight that long (the
\* POST of authenticate is made with the default timeout of the client)
Elapse ==
    /\ \A r \in SyncRuns : sync_pc[r] # "exchange"
    /\ clock + TimeStep <= MaxTime
    /\ clock' = clock + TimeStep
    /\ UNCHANGED <<db, mapVars, jobVars, syncVars, sync_auth, token_cache, issued>>

----------------------------------------------------------------------------
(* Specifications *)

AuthIdle ==
    /\ sync_auth = [r \in SyncRuns |-> NoAuth]
    /\ token_cache = EmptyCache
    /\ issued = <<>>
    /\ clock = 0
    /\ background_tasks = <<>>
    /\ response = [status |-> 0]

SyncIdle ==
    /\ sync_pc = [r \in SyncRuns |-> "idle"]
    /\ sync_children = [r \in SyncRuns |-> 0]
    /\ sync_idx = [r \in SyncRuns |-> 0]
    /\ sync_codes = [r \in SyncRuns |-> <<>>]
    /\ sync_failed = [r \in SyncRuns |-> {}]
    /\ sync_result = [r \in SyncRuns |-> [outcome |-> "none"]]

MappingIdle ==
    /\ concept_mappings = <<>>
    /\ vectorizer = Unfitted
    /\ now = 0
    /\ last = [op |-> "none"]

Database(namaste_codes, icd11_codes) ==
    [c \in CollectionNames |->
        CASE c = "namaste_codes" -> namaste_codes
          [] c = "icd11_codes" -> icd11_codes
          [] c = "icd11_tm2_codes" -> <<>>]

Thresholds == {DefaultThreshold, WiderMin, ExactMin}

\* The registry: generation through the route over one pair of corpora,
\* validation, translation
Init ==
    /\ db = Database(<<N1>>, <<T1, T3>>)
    /\ MappingIdle
    /\ SyncIdle
    /\ AuthIdle

\* (source_system, target_system, threshold) of the calls of the route
RouteCalls == {<<"namaste", "icd11", DefaultThreshold>>, <<"icd11", "namaste", EquivalentMin>>}

\* (is_valid, current_user) of the validation requests
ValidationCalls == {<<TRUE, "alice">>, <<FALSE, "bob">>, <<TRUE, "carol">>}

\* (code, source_system, target_system) of the translation requests
TranslateCalls == {<<"N1", "namaste", "icd11">>, <<"T1", "icd11", "namaste">>}

Next ==
    \/ \E c \in RouteCalls, f \in {"no", "commit"} :
          GenerateMappings(c[1], c[2], c[3], TRUE, TRUE, f)
    \/ \E id \in 1..(MaxMappings + 1), c \in ValidationCalls :
          ValidateMapping(id, c[1], c[2])
    \/ \E c \in TranslateCalls :
          TranslateCode(c[1], c[2], c[3])
    \/ Tick

Spec == Init /\ [][Next]_vars

\* The generator: several corpora, every threshold, on a new or on the same
\* service instance, with and without a session
Corpora == {<<(<<N1, N2>>), (<<T1, T2, T3, T4>>)>>, <<(<<N1>>), (<<T3, T4>>)>>, <<(<<N3>>), (<<T2>>)>>, <<(<<>>), (<<T1, T2>>)>>}

GenInit ==
    /\ \E c \in Corpora : db = Database(c[1], c[2])
    /\ MappingIdle
    /\ SyncIdle
    /\ AuthIdle

\* (source_system, target_system) of the calls of the service
ServiceCalls == {<<"namaste", "icd11">>, <<"icd11", "namaste">>, <<"namaste", "namaste">>, <<"namaste", "icd11_tm2">>}

\* (fresh, has_db, fails) of the calls of the service
ServiceModes == {<<TRUE, TRUE, "no">>, <<TRUE, TRUE, "commit">>, <<TRUE, FALSE, "find">>, <<TRUE, FALSE, "no">>, <<FALSE, FALSE, "no">>}

GenNext ==
    \E c \in ServiceCalls, t \in Thresholds, m \in ServiceModes :
        GenerateMappings(c[1], c[2], t, m[1], m[2], m[3])

GenSpec == GenInit /\ [][GenNext]_vars

\* The thresholds a caller may pass: in (0, 1] and outside of it
InputThresholds == {-10, 0, DefaultThreshold, 100, 110}

InputCalls == {<<"namaste", "icd11">>, <<"icd11", "namaste">>}

\* The generator through the route, called with any threshold
InputNext ==
    \E c \in InputCalls, t \in InputThresholds, f \in {"no", "commit"} :
        GenerateMappings(c[1], c[2], t, TRUE, TRUE, f)

InputSpec == GenInit /\ [][InputNext]_vars

\* Search: several stores, queries, systems and limits, page after page
SearchInit ==
    /\ \E n \in {<<N1>>, <<N1, N2>>}, i \in {<<>>, <<T1>>, <<T1, T2, T4>>} :
          db = Database(n, i)
    /\ MappingIdle
    /\ SyncIdle
    /\ AuthIdle

SearchQueries == {"pain", "fracture", "n1"}

SearchNext ==
    \E q \in SearchQueries, s \in {NAMASTE, ICD11_TM2, None}, l \in 1..MaxLimit,
       o \in 0..MaxOffset :
        SearchTerminology(q, s, l, o)

SearchSpec == SearchInit /\ [][SearchNext]_vars

\* Emission: generation, validation and the ConceptMap of a pair of systems
MapCalls == {<<"namaste", "icd11">>, <<"icd11", "namaste">>}

MapNext ==
    \/ \E c \in RouteCalls : GenerateMappings(c[1], c[2], c[3], TRUE, TRUE, "no")
    \/ \E id \in 1..MaxMappings, c \in ValidationCalls : ValidateMapping(id, c[1], c[2])
    \/ \E c \in MapCalls : CreateConceptMap(c[1], c[2])

MapSpec == Init /\ [][MapNext]_vars

\* The route: requests of an administrator and of a user, jobs, the clock
RouteUsers == {"bob", "carol"}

RouteNext ==
    \/ \E c \in RouteCalls, u \in RouteUsers, b \in BOOLEAN, f \in {"no", "commit"} :
          GenerateRoute(c[1], c[2], c[3], u, b, f)
    \/ \E f \in {"no", "commit"} : RunTask(f)
    \/ Tick

RouteSpec == Init /\ [][RouteNext]_vars

\* The synchronizer
SyncInit ==
    /\ \E i \in {<<>>, <<T0, T1>>} : db = Database(<<N1>>, i)
    /\ MappingIdle
    /\ SyncIdle
    /\ AuthIdle

SyncNext ==
    \/ \E r \in SyncRuns, o \in {"ok", "auth", "root"}, n \in 0..MaxChildren :
          SyncStart(r, o, n)
    \/ \E r \in SyncRuns, o \in {"ok", "status", "exception"} :
          ProcessChild(r, o)
    \/ \E r \in SyncRuns, f \in {"no", "delete", "insert"}, w \in 0..MaxChildren :
          SyncStore(r, f, w)

SyncSpec == SyncInit /\ [][SyncNext]_vars

\* The synchronizer and the generator on one store: runs over a root of at
\* most two children, and generation with the synchronized tag as target
BridgeInit ==
    /\ db = Database(<<N1>>, <<>>)
    /\ MappingIdle
    /\ SyncIdle
    /\ AuthIdle

BridgeNext ==
    \/ \E r \in SyncRuns, o \in {"ok", "auth", "root"}, n \in 0..2 :
          SyncStart(r, o, n)
    \/ \E r \in SyncRuns, o \in {"ok", "status", "exception"} :
          ProcessChild(r, o)
    \/ \E r \in SyncRuns, f \in {"no", "delete", "insert"}, w \in 0..1 :
          SyncStore(r, f, w)
    \/ \E t \in Thresholds :
          GenerateMappings(NAMASTE, ICD11_TM2, t, TRUE, TRUE, "no")

BridgeSpec == BridgeInit /\ [][BridgeNext]_vars

\* bulk ingestions into an empty collection
IngestInit ==
    /\ db = Database(<<>>, <<>>)
    /\ MappingIdle
    /\ SyncIdle
    /\ AuthIdle

IngestNext == \E rows \in CsvFiles, columns \in BOOLEAN : ProcessCsv(rows, columns)

IngestSpec == IngestInit /\ [][IngestNext]_vars

\* the synchronizer with its authentication, over a root of at most one child
AuthInit ==
    /\ db = Database(<<N1>>, <<>>)
    /\ MappingIdle
    /\ SyncIdle
    /\ AuthIdle

AuthNext ==
    \/ \E r \in SyncRuns : Authenticate(r)
    \/ \E r \in SyncRuns, o \in {"ok", "denied"}, l \in Lifetimes : Exchange(r, o, l)
    \/ \E r \in SyncRuns, o \in {"ok", "invalid", "error"}, n \in 0..1 : FetchRoot(r, o, n)
    \/ \E r \in SyncRuns, o \in {"ok", "status", "exception"} : ProcessChild(r, o)
    \/ \E r \in SyncRuns, f \in {"no", "delete", "insert"} : SyncStore(r, f, 0)
    \/ \E r \in SyncRuns : NextRequest(r)
    \/ Elapse

AuthSpec == AuthInit /\ [][AuthNext]_vars

----------------------------------------------------------------------------
(* Properties of the mapping generator, under GenSpec *)

\* the band of a score, as the specification tabulates it
BandOf(score) ==
    CASE score >= 90 -> "exact"
      [] score >= 70 /\ score < 90 -> "equivalent"
      [] score >= 50 /\ score < 70 -> "wider"
      [] score < 50 -> "inexact"

Banded(m) == m.equivalence = BandOf(m.confidence_score) /\ m.equivalence # "narrower"

Generated == last.op = "generate" /\ last.status = "ok"

\* C1: every Correspondence generate_mappings emits, returned or stored,
\* carries the equivalence of the band of its confidence_score (>= 0.9 EXACT,
\* [0.7, 0.9) EQUIVALENT, [0.5, 0.7) WIDER, < 0.5 INEXACT), never NARROWER.
C1_Banding ==
    /\ Generated => \A k \in 1..Len(last.mappings) : Banded(last.mappings[k])
    /\ \A id \in 1..Len(concept_mappings) : Banded(concept_mappings[id])

\* a run that returned Correspondences of all four bands, one of them at the
\* lower end (0.5) of its band
C1_Witness ==
    /\ Generated
    /\ \A b \in {"exact", "equivalent", "wider", "inexact"} :
          \E k \in 1..Len(last.mappings) : last.mappings[k].equivalence = b
    /\ \E k \in 1..Len(last.mappings) : last.mappings[k].confidence_score = 50

\* the score of source entry i and target entry j of the last call, under
\* the vocabulary the vectorizer holds
PairScore(i, j) ==
    CosineSimilarity(
        Transform(vectorizer.vocabulary, Text(db[CollectionName(last.source_system)][i])),
        Transform(vectorizer.vocabulary, Text(db[CollectionName(last.target_system)][j])))

\* the (source entry, target entry) pairs of the last call at or above t
PairsAtOrAbove(t) ==
    {p \in (1..Len(db[CollectionName(last.source_system)]))
           \X (1..Len(db[CollectionName(last.target_system)])) :
        PairScore(p[1], p[2]) >= t}

IsMappingOf(m, p) ==
    /\ m.source_code = db[CollectionName(last.source_system)][p[1]].code
    /\ m.target_code = db[CollectionName(last.target_system)][p[2]].code
    /\ m.confidence_score = PairScore(p[1], p[2])

\* C2: generate_mappings emits a Correspondence for a pair if and only if
\* the pair's score is >= threshold: one for every such pair, none for another.
C2_EmitIffAtOrAboveThreshold ==
    Generated =>
        /\ Len(last.mappings) = Cardinality(PairsAtOrAbove(last.threshold))
        /\ \A p \in PairsAtOrAbove(last.threshold) :
              \E k \in 1..Len(last.mappings) : IsMappingOf(last.mappings[k], p)
        /\ \A k \in 1..Len(last.mappings) :
              \E p \in PairsAtOrAbove(last.threshold) : IsMappingOf(last.mappings[k], p)

\* a run in which one source entry got two targets, one of them exactly at
\* the threshold, and a target with a positive score below it got none
C2_Witness ==
    /\ Generated
    /\ \E k1, k2 \in 1..Len(last.mappings) :
          /\ k1 # k2
          /\ last.mappings[k1].source_code = last.mappings[k2].source_code
          /\ last.mappings[k1].confidence_score = last.threshold
    /\ \E p \in PairsAtOrAbove(1) : p \notin PairsAtOrAbove(last.threshold)

\* the (source_code, target_code, confidence_score) triples of a returned list
Triples(mappings) ==
    {<<mappings[k].source_code, mappings[k].target_code, mappings[k].confidence_score>> :
        k \in 1..Len(mappings)}

\* this step is a run of generate_mappings that follows a run for the same
\* systems over the same corpora, both returning
RunAfterRun ==
    /\ Generated
    /\ last'.op = "generate" /\ last'.status = "ok"
    /\ last'.source_system = last.source_system
    /\ last'.target_system = last.target_system
    /\ db' = db

\* C7: two runs of generate_mappings over the same corpora with the same
\* threshold return the same set of (source_code, target_code,
\* confidence_score) triples, on a new instance or on the instance of the
\* first run.
C7_Determinism ==
    [][(RunAfterRun /\ last'.threshold = last.threshold)
          => Triples(last'.mappings) = Triples(last.mappings)]_vars

\* a run between two systems, made on an instance whose vectorizer an earlier
\* run had fitted, that returned a pair with a score in [0.7, 1)
C7_Witness ==
    /\ Generated
    /\ last.refit
    /\ last.source_system # last.target_system
    /\ \E k \in 1..Len(last.mappings) :
          /\ last.mappings[k].confidence_score < 100
          /\ last.mappings[k].confidence_score >= 70

\* C8: for thresholds t1 <= t2 over the same corpora, what generate_mappings
\* returns at t2 is a subset of what it returns at t1, and not more.
C8_Monotonicity ==
    [][RunAfterRun =>
          /\ last.threshold <= last'.threshold =>
                /\ Triples(last'.mappings) \subseteq Triples(last.mappings)
                /\ Len(last'.mappings) <= Len(last.mappings)
          /\ last'.threshold <= last.threshold =>
                /\ Triples(last.mappings) \subseteq Triples(last'.mappings)
                /\ Len(last.mappings) <= Len(last'.mappings)]_vars

\* a run at the highest threshold that returned some, and fewer than the
\* pairs at or above the default threshold
C8_Witness ==
    /\ Generated
    /\ last.threshold = ExactMin
    /\ Len(last.mappings) > 0
    /\ Len(last.mappings) < Cardinality(PairsAtOrAbove(DefaultThreshold))

----------------------------------------------------------------------------
(* Properties of the registry and of the resolver, under Spec *)

Translated == last.op = "translate"

\* the rows translate_code returned, in the order returned
Returned(k) == concept_mappings[last.mappings[k]]

\* C3: translate_code returns its records by confidence_score descending,
\* and of two records with equal confidence_score the one created earlier
\* comes first.
C3_RankedWithTieBreak ==
    Translated =>
        \A i, j \in 1..Len(last.mappings) :
            i < j =>
                \/ Returned(i).confidence_score > Returned(j).confidence_score
                \/ /\ Returned(i).confidence_score = Returned(j).confidence_score
                   /\ Returned(i).created_at <= Returned(j).created_at

\* C4: after a validation request the row carries the decision and the
\* validator of that request only, whatever was decided before: decided
\* False it is REJECTED, which no undecided row is.
C4_LastDecisionOnly ==
    (last.op = "validate" /\ last.status = 200) =>
        LET row == concept_mappings[last.mapping_id]
        IN  /\ row.is_validated = last.is_validated
            /\ row.validated_by = last.validated_by
            /\ ValidationState(row) = IF last.is_validated THEN "VALIDATED" ELSE "REJECTED"
            /\ ValidationState(row) # "UNVALIDATED"

\* a row alice had validated, now rejected by bob
C4_Witness ==
    /\ last.op = "validate" /\ last.status = 200
    /\ last.previous_state = "VALIDATED"
    /\ ~last.is_validated /\ last.validated_by = "bob"
    /\ ValidationState(concept_mappings[last.mapping_id]) = "REJECTED"
    /\ concept_mappings[last.mapping_id].validated_by = "bob"

\* C9: translate_code returns exactly the rows whose source_code,
\* source_system and target_system are those asked for, each once, in
\* whatever validation state, and an empty list when there is none.
C9_ExactlyTheMatchingRows ==
    Translated =>
        LET matching == {id \in 1..Len(concept_mappings) :
                            /\ concept_mappings[id].source_code = last.code
                            /\ concept_mappings[id].source_system = last.source_system
                            /\ concept_mappings[id].target_system = last.target_system}
        IN  /\ last.status = "ok"
            /\ {last.mappings[k] : k \in 1..Len(last.mappings)} = matching
            /\ Len(last.mappings) = Cardinality(matching)

\* a translation that returned an undecided and a rejected row, while the
\* registry is not empty
C9_Witness ==
    /\ Translated
    /\ \E i, j \in 1..Len(last.mappings) :
          /\ ValidationState(Returned(i)) = "UNVALIDATED"
          /\ ValidationState(Returned(j)) = "REJECTED"

\* this step is the validation request (mapping_id, is_valid, current_user)
\* of an expert or administrator
ValidationStep(mapping_id, is_valid, current_user) ==
    /\ Role(current_user) \in {"admin", "expert"}
    /\ ValidateMapping(mapping_id, is_valid, current_user)

\* C10: a validation request for an id that is not in the registry is
\* answered NotFound and changes no row; for a known id it records the
\* caller as validated_by and the time of the call as validation date.
C10_NotFoundOrRecorded ==
    [][\A id \in 1..(MaxMappings + 1), c \in ValidationCalls :
          ValidationStep(id, c[1], c[2]) =>
              IF id \in 1..Len(concept_mappings)
              THEN /\ last'.status = 200
                   /\ concept_mappings'[id].validated_by = c[2]
                   /\ concept_mappings'[id].validation_date = now
                   /\ concept_mappings'[id].validation_date # NoDate
              ELSE /\ last'.status = 404
                   /\ concept_mappings' = concept_mappings]_vars

\* a request answered NotFound while the registry holds rows
C10_Witness ==
    /\ last.op = "validate" /\ last.status = 404
    /\ Len(concept_mappings) > 0

----------------------------------------------------------------------------
(* Properties of the synchronizer, under SyncSpec *)

\* the entities of the first n child references, those that failed left out
RECURSIVE Emitted(_, _)
Emitted(n, failed) ==
    IF n = 0 THEN <<>>
    ELSE IF n \in failed THEN Emitted(n - 1, failed)
    ELSE Append(Emitted(n - 1, failed), RemoteEntities[n])

\* C5: a child reference whose fetch fails, by an exception or by a
\* response other than success, does not end the run: the crawl goes on to
\* the end of the children, every sibling that was fetched is emitted, and
\* the run that returns reports success with codes_fetched the number of
\* children fetched.
C5_ChildFailureNotFatal ==
    \A r \in SyncRuns :
        /\ sync_pc[r] \in {"crawl", "done"} =>
              /\ sync_failed[r] \subseteq 1..sync_idx[r]
              /\ sync_codes[r] = Emitted(sync_idx[r], sync_failed[r])
        /\ (sync_pc[r] = "failed" /\ sync_failed[r] # {}) =>
              /\ sync_idx[r] = sync_children[r]
              /\ sync_codes[r] # <<>>
        /\ sync_pc[r] = "done" =>
              /\ sync_idx[r] = sync_children[r]
              /\ sync_result[r].outcome = "returned"
              /\ sync_result[r].success
              /\ sync_result[r].codes_fetched = sync_children[r] - Cardinality(sync_failed[r])

\* a run over five children, one of which failed before the last, that
\* returned codes_fetched = 4
C5_Witness ==
    \E r \in SyncRuns :
        /\ sync_pc[r] = "done"
        /\ sync_children[r] = 5
        /\ \E k \in 1..4 : sync_failed[r] = {k}
        /\ sync_result[r].codes_fetched = 4

\* the entries of the store that carry the system tag
Snapshot(collection) == SelectSeq(collection, LAMBDA e : e.system = ICD11_TM2)

\* C6: when the bulk insert at the end of a run fails, the entries of the
\* store that carry the system tag are those of before the run's write.
C6_FailedInsertKeepsSnapshot ==
    [][\A r \in SyncRuns, w \in 0..MaxChildren :
          SyncStore(r, "insert", w) =>
              Snapshot(db'["icd11_codes"]) = Snapshot(db["icd11_codes"])]_vars

\* the runs that have started and neither returned nor raised
InFlight == {r \in SyncRuns : sync_pc[r] = "crawl"}

\* C11: at most one synchronization of the vocabulary tag is in flight at
\* any time; a request made while a run is in flight does not run beside it.
C11_OneSyncInFlight == Cardinality(InFlight) <= 1

----------------------------------------------------------------------------
(* Properties of the authentication, under AuthSpec *)

\* the run is past its GET of the root entity
PastRoot(r) == sync_pc[r] \in {"crawl", "done", "failed"} /\ sync_auth[r].root_gets > 0

\* C12: a run whose GET of the root entity, made with the cached token, was
\* answered that the token is invalid has made one forced exchange and sent
\* the GET a second time, and no more, before it fails or goes on.
C12_ReauthenticateAndRetryOnce ==
    \A r \in SyncRuns :
        (PastRoot(r) /\ sync_auth[r].cached /\ sync_auth[r].first_answer = "invalid") =>
            /\ sync_auth[r].exchanges = 1
            /\ sync_auth[r].root_gets = 2

\* the cache holds a token that has not expired
CacheHolds == token_cache.token # NoToken /\ clock < token_cache.until

\* C13: authenticate starts a client-credential exchange only when the cache
\* holds no unexpired token; while it holds one the call returns that token
\* and the remote service issues nothing; after a successful exchange the
\* token just issued is in the cache and is the one returned.
C13_ExchangeOnlyOnMiss ==
    [][/\ \A r \in SyncRuns :
             Authenticate(r) =>
                 IF CacheHolds
                 THEN /\ sync_pc'[r] = "authed"
                      /\ sync_auth'[r].token = token_cache.token
                      /\ sync_auth'[r].exchanges = sync_auth[r].exchanges
                      /\ issued' = issued
                      /\ token_cache' = token_cache
                 ELSE sync_pc'[r] = "exchange"
       /\ \A r \in SyncRuns, l \in Lifetimes :
             Exchange(r, "ok", l) =>
                 /\ Len(issued') = Len(issued) + 1
                 /\ token_cache'.token = Len(issued')
                 /\ token_cache'.token # NoToken /\ clock' < token_cache'.until
                 /\ sync_auth'[r].token = Len(issued')]_vars

\* a run that was handed the cached token while another run had issued it,
\* and a later run that found the key expired and was handed a second token
C13_Witness ==
    \E r, q \in SyncRuns :
        /\ r # q
        /\ sync_auth[r].cached /\ sync_auth[r].token = 1 /\ sync_auth[r].exchanges = 0
        /\ sync_auth[q].token = 1 /\ sync_auth[q].exchanges = 1
        /\ CacheHolds

\* C14: the key of every cached token expires before the token does at the
\* remote service, whatever lifetime the service gave it, so a token the
\* cache still holds is one the remote service still accepts.
C14_CachedShorterThanLifetime ==
    token_cache.token # NoToken =>
        /\ token_cache.until < issued[token_cache.token].issued_at
                                  + issued[token_cache.token].lifetime
        /\ CacheHolds => TokenValid(token_cache.token, clock)

----------------------------------------------------------------------------
(* The depth of the crawl, under SyncSpec *)

RECURSIVE Below(_)
\* the entities reachable from an entity through declared child references
Below(entity) ==
    LET refs == ChildReferences(entity)
    IN  {refs[i] : i \in 1..Len(refs)}
            \cup UNION {Below(refs[i]) : i \in 1..Len(refs)}

\* how many entries of codes are the entry of the entity
Entries(codes, entity) == Cardinality({i \in 1..Len(codes) : codes[i] = entity})

\* C15: the crawl is recursive: a run that returned has exactly one entry
\* for every child of the root that was fetched and for every entity
\* reachable below such a child, at whatever depth.
C15_CrawlReachesEveryDepth ==
    \A r \in SyncRuns :
        sync_pc[r] = "done" =>
            \A k \in (1..sync_children[r]) \ sync_failed[r] :
                /\ Entries(sync_codes[r], RemoteEntities[k]) = 1
                /\ \A e \in Below(RemoteEntities[k]) : Entries(sync_codes[r], e) = 1

----------------------------------------------------------------------------
(* Invariants of the registry, under Spec *)

\* the row has been decided: it is VALIDATED or REJECTED
Decided(row) == ValidationState(row) # "UNVALIDATED"

\* the ids of the committed rows
Ids(table) == {table[i].id : i \in 1..Len(table)}

\* C16: validated_by and validation_date of a row are both present if and
\* only if the row is not UNVALIDATED; the rows the generator commits are
\* UNVALIDATED with both absent; a decided row never becomes UNVALIDATED.
C16_AttributionIffDecided ==
    /\ [](\A i \in 1..Len(concept_mappings) :
             LET row == concept_mappings[i]
             IN  /\ Decided(row) <=> (row.validated_by # None /\ row.validation_date # NoDate)
                 /\ ~Decided(row) <=> (row.validated_by = None /\ row.validation_date = NoDate)
                 /\ row.is_validated => row.validated_by # None)
    /\ [][/\ \A i \in 1..Len(concept_mappings') :
                i > Len(concept_mappings) =>
                    /\ ~concept_mappings'[i].is_validated
                    /\ concept_mappings'[i].validated_by = None
                    /\ concept_mappings'[i].validation_date = NoDate
          /\ \A i \in 1..Len(concept_mappings) :
                (i <= Len(concept_mappings') /\ Decided(concept_mappings[i])) =>
                    Decided(concept_mappings'[i])]_vars

\* a rejected row decided again, beside a row nobody has decided
C16_Witness ==
    /\ last.op = "validate" /\ last.status = 200
    /\ last.previous_state = "REJECTED"
    /\ \E i \in 1..Len(concept_mappings) : ~Decided(concept_mappings[i])
    /\ Decided(concept_mappings[last.mapping_id])

\* C17: no operation removes a committed row: every id in the registry
\* before a step is in the registry after it.
C17_IdsOnlyGrow ==
    [][/\ Ids(concept_mappings) \subseteq Ids(concept_mappings')
       /\ Len(concept_mappings') >= Len(concept_mappings)]_vars

\* a run of the generator that committed rows to a registry that already
\* held some
C17_Witness ==
    /\ last.op = "generate" /\ last.status = "ok"
    /\ Len(last.mappings) > 0
    /\ Len(concept_mappings) > Len(last.mappings)

\* this step is a run of the generator through the route
GenerationStep == \E c \in RouteCalls, f \in {"no", "commit"} :
                      GenerateMappings(c[1], c[2], c[3], TRUE, TRUE, f)

\* C18: a run of generate_mappings that fails leaves the registry as it
\* was, and a run that returns has committed a row for every mapping it
\* returns: all of a run's rows or none.
C18_AllOrNothing ==
    [][GenerationStep =>
          IF last'.status = "error"
          THEN concept_mappings' = concept_mappings
          ELSE /\ Len(concept_mappings') = Len(concept_mappings) + Len(last'.mappings)
               /\ SubSeq(concept_mappings', 1, Len(concept_mappings)) = concept_mappings]_vars

\* a run whose commit failed after an earlier run had committed rows
C18_Witness ==
    /\ last.op = "generate" /\ last.status = "error"
    /\ last.source_system = "icd11"
    /\ Len(concept_mappings) > 0

\* the key of a row
Key(row) == <<row.source_code, row.source_system, row.target_code, row.target_system>>

\* C19: the registry never holds two rows for one (source_code,
\* source_system, target_code, target_system).
C19_OneRowPerKey ==
    \A i, j \in 1..Len(concept_mappings) :
        Key(concept_mappings[i]) = Key(concept_mappings[j]) => i = j

----------------------------------------------------------------------------
(* The vocabulary store, under IngestSpec *)

\* the rows of a file that are to be skipped: those whose code the store
\* held before the file, or that an earlier row of the file has
Duplicates(rows, found) ==
    {k \in 1..Len(rows) :
        \/ rows[k].code \in found
        \/ \E j \in 1..(k - 1) : rows[j].code = rows[k].code}

\* C20: no two entries of the vocabulary store share (code, system), and
\* an ingestion that returned has counted as skipped every row whose code
\* was in the store or earlier in its file.
C20_UniqueCodeAndSystem ==
    LET collection == db["namaste_codes"]
    IN  /\ \A i, j \in 1..Len(collection) :
              (collection[i].code = collection[j].code
                  /\ collection[i].system = collection[j].system) => i = j
        /\ (last.op = "ingest" /\ last.status = "ok") =>
              /\ last.success
              /\ last.codes_skipped = Cardinality(Duplicates(last.rows, last.found))
              /\ last.codes_processed + last.codes_skipped = Len(last.rows)

----------------------------------------------------------------------------
(* The inputs of the generator *)

\* the threshold is in (0, 1]
ValidThreshold(t) == t > 0 /\ t <= 100

\* C21: a call of generate_mappings with a threshold outside (0, 1] is
\* rejected with an error and creates no row.  (Under InputSpec.)
C21_ThresholdOutOfRangeRejected ==
    [][\A c \in InputCalls, t \in InputThresholds, f \in {"no", "commit"} :
          (~ValidThreshold(t) /\ GenerateMappings(c[1], c[2], t, TRUE, TRUE, f)) =>
              /\ last'.status = "error"
              /\ concept_mappings' = concept_mappings]_vars

\* C22: when the source or the target corpus is empty, generate_mappings
\* returns an empty list, raises nothing, and writes no row.  (Under GenSpec.)
C22_EmptyCorpusEmptyResult ==
    [][\A c \in ServiceCalls, t \in Thresholds, m \in ServiceModes :
          (/\ m[3] # "find"
           /\ \/ db[CollectionName(c[1])] = <<>>
              \/ db[CollectionName(c[2])] = <<>>
           /\ GenerateMappings(c[1], c[2], t, m[1], m[2], m[3])) =>
              /\ last'.status = "ok"
              /\ last'.mappings = <<>>
              /\ concept_mappings' = concept_mappings]_vars

\* a call with a session whose target corpus alone is empty, returned
C22_Witness ==
    /\ last.op = "generate" /\ last.status = "ok" /\ last.mappings = <<>>
    /\ db[CollectionName(last.source_system)] # <<>>
    /\ db[CollectionName(last.target_system)] = <<>>

----------------------------------------------------------------------------
(* The two modes of the route, under RouteSpec *)

\* C23: the result of a generation the route accepted is obtainable by the
\* caller, in the response itself (the call was awaited) or later through a
\* handle of the job the response carries; the job commits what the awaited
\* call commits.
C23_ResultObtainable ==
    response.status = 200 =>
        \/ "mappings_count" \in DOMAIN response
        \/ "job_id" \in DOMAIN response

----------------------------------------------------------------------------
(* The synchronizer's store and the generator's corpus *)

\* the entries the synchronizer has stored for the tag
Stored == Snapshot(db["icd11_codes"])

\* the mappings of the source entries scored against target_codes
MappingsAgainst(source_codes, target_codes, source_system, target_system, threshold) ==
    LET vocabulary == Fit(Texts(source_codes) \o Texts(target_codes))
    IN  MappingsUpTo(Len(source_codes), source_codes, target_codes,
                     source_system, target_system,
                     SimilarityMatrix(vocabulary, source_codes, target_codes),
                     threshold)

\* C24: the entries a synchronization stored for the tag icd11_tm2 are the
\* target corpus of generate_mappings(namaste, icd11_tm2): once n > 0 such
\* entries are stored, the call returns the source entries scored against
\* exactly them.  (Under BridgeSpec.)
C24_GeneratorReadsWhatSyncStored ==
    [][\A t \in Thresholds :
          (Stored # <<>> /\ GenerateMappings(NAMASTE, ICD11_TM2, t, TRUE, TRUE, "no")) =>
              last'.mappings = MappingsAgainst(db["namaste_codes"], Stored,
                                               NAMASTE, ICD11_TM2, t)]_vars

\* C25: a synchronization that returns has replaced the snapshot: the
\* entries of the store with the tag are exactly the entries the run
\* fetched, as many as the codes_fetched it reports, also when it fetched
\* none.  (Under SyncSpec.)
C25_SnapshotReplaced ==
    [][\A r \in SyncRuns :
          SyncStore(r, "no", 0) =>
              /\ Snapshot(db'["icd11_codes"]) = sync_codes[r]
              /\ Len(Snapshot(db'["icd11_codes"])) = sync_result'[r].codes_fetched]_vars

\* C26: a validation request changes, of the row it addresses, only
\* is_validated, validated_by and validation_date, and changes no other
\* row.  (Under Spec.)
C26_ValidationFrame ==
    [][\A id \in 1..(MaxMappings + 1), c \in ValidationCalls :
          ValidateMapping(id, c[1], c[2]) =>
              /\ Len(concept_mappings') = Len(concept_mappings)
              /\ \A i \in 1..Len(concept_mappings) :
                    IF i = id
                    THEN \A field \in DOMAIN concept_mappings[i] \
                                        {"is_validated", "validated_by", "validation_date"} :
                            concept_mappings'[i][field] = concept_mappings[i][field]
                    ELSE concept_mappings'[i] = concept_mappings[i]]_vars

\* an accepted request for one row of a registry that holds another row
\* nobody has decided
C26_Witness ==
    /\ last.op = "validate" /\ last.status = 200
    /\ Len(concept_mappings) = 2
    /\ \E i \in 1..2 :
          /\ i # last.mapping_id
          /\ concept_mappings[i].validated_by = None
    /\ concept_mappings[last.mapping_id].validation_date = now

----------------------------------------------------------------------------
(* Concurrent authentication, under AuthSpec *)

\* authenticate returns to the run in this step
Returns(r) == sync_pc[r] \in {"idle", "exchange"} /\ sync_pc'[r] = "authed"

\* an exchange is in flight
RefreshInFlight == \E q \in SyncRuns : sync_pc[q] = "exchange"

\* C27: whatever the interleaving of the authenticate calls, a cached token
\* that has not expired leaves the cache only by being replaced with a
\* token just issued; and while an exchange is in flight every call that
\* returns hands out the cached token, still valid at the remote service,
\* or the token just issued.
C27_NoEvictionAndValidToken ==
    [][/\ (CacheHolds /\ token_cache' # token_cache) =>
              /\ token_cache'.token = Len(issued')
              /\ Len(issued') = Len(issued) + 1
              /\ clock' < token_cache'.until
       /\ \A r \in SyncRuns :
              (RefreshInFlight /\ Returns(r)) =>
                  \/ /\ CacheHolds
                     /\ sync_auth'[r].token = token_cache.token
                     /\ TokenValid(token_cache.token, clock)
                  \/ /\ Len(issued') = Len(issued) + 1
                     /\ sync_auth'[r].token = Len(issued')]_vars

\* a call handed the cached token while the exchange of another call is in
\* flight
C27_Witness ==
    \E r, q \in SyncRuns :
        /\ sync_pc[q] = "exchange"
        /\ sync_pc[r] = "authed" /\ sync_auth[r].cached
        /\ CacheHolds /\ sync_auth[r].token = token_cache.token

----------------------------------------------------------------------------
(* The emitted ConceptMap, under MapSpec *)

\* the rows of the pair whose last decision is an acceptance
Accepted(source_system, target_system) ==
    {i \in 1..Len(concept_mappings) :
        /\ concept_mappings[i].source_system = source_system
        /\ concept_mappings[i].target_system = target_system
        /\ ValidationState(concept_mappings[i]) = "VALIDATED"}

\* C28: the ConceptMap emitted for a pair of systems has one element for
\* each mapping of the pair whose last decision is an acceptance and none
\* for any other mapping (undecided or rejected); when there is no such
\* mapping the route answers NotFound and emits no map.
C28_ElementIffAccepted ==
    [][\A c \in MapCalls :
          CreateConceptMap(c[1], c[2]) =>
              IF Accepted(c[1], c[2]) = {}
              THEN last'.status = 404 /\ "element" \notin DOMAIN last'
              ELSE /\ last'.status = 200
                   /\ {last'.rows[k] : k \in 1..Len(last'.rows)} = Accepted(c[1], c[2])
                   /\ Len(last'.rows) = Cardinality(Accepted(c[1], c[2]))
                   /\ Len(last'.element) = Len(last'.rows)
                   /\ \A k \in 1..Len(last'.element) :
                         /\ last'.element[k].code
                               = concept_mappings[last'.rows[k]].source_code
                         /\ last'.element[k].target.code
                               = concept_mappings[last'.rows[k]].target_code]_vars

\* a map of one element emitted for a pair that has an accepted and a
\* rejected mapping
C28_Witness ==
    /\ last.op = "concept_map" /\ last.status = 200
    /\ Len(last.element) = 1
    /\ \E i \in 1..Len(concept_mappings) :
          /\ concept_mappings[i].source_system = last.source_system
          /\ concept_mappings[i].target_system = last.target_system
          /\ ValidationState(concept_mappings[i]) = "REJECTED"

----------------------------------------------------------------------------
(* Paging through a search, under SearchSpec *)

\* the entries of both vocabularies that match the query
AllMatches(query) ==
    {db["namaste_codes"][i] : i \in {k \in 1..Len(db["namaste_codes"]) :
                                        MatchesQuery(db["namaste_codes"][k], query)}}
        \cup {db["icd11_codes"][i] : i \in {k \in 1..Len(db["icd11_codes"]) :
                                        /\ db["icd11_codes"][k].system = ICD11_TM2
                                        /\ MatchesQuery(db["icd11_codes"][k], query)}}

\* C29: in a search that names no system, every page has at most limit
\* entries, and when the pages asked for at offsets 0, limit, 2*limit, ...
\* have come to an empty page, the pages together hold every matching entry
\* of both vocabularies, each once.
C29_PagingIsComplete ==
    (last.op = "search" /\ last.system = None) =>
        /\ Len(last.results) <= last.limit
        /\ last.results = <<>> =>
              /\ {last.collected[k] : k \in 1..Len(last.collected)} = AllMatches(last.query)
              /\ Len(last.collected) = Cardinality(AllMatches(last.query))

====
